---- MODULE Spec2Model ----
(***************************************************************************)
(* The daily marketing pipeline of orchestrator.py and its seven agents.   *)
(* Python dicts are functions whose DOMAIN is the set of keys, so that     *)
(* "key absent", "empty dict" and truthiness are what they are in Python.  *)
(***************************************************************************)
EXTENDS Integers, Sequences, FiniteSets, TLC

VARIABLES
    sched,                      \* main(): "Immediate" | "Idle" | "Running" | "Crashed"
    active,                     \* number of pipeline runs in progress
    runs,                       \* number of runs started since process start
    missed,                     \* daily triggers skipped by the scheduler
    today,                      \* the wall-clock date, datetime.now() as %Y-%m-%d
    passed03,                   \* TRUE when 03:00 of `today` has passed
    budget,                     \* raw events the news sites still yield (bound)
    titles,                     \* the event titles the news sites carry
    scores,                     \* the scores the analyser's model gives
    pc,                         \* position inside run_daily_marketing_pipeline
    ti,                         \* index of the target of the scan loop
    raw_events_data,            \* line 63
    all_high_potential_events,  \* line 59, the worklist
    ei,                         \* index of the event of the campaign loop
    creative_brief,             \* line 94
    campaign_copy,              \* line 101
    image_prompt_data,          \* line 102
    completed_campaigns,        \* line 56, the batch
    markdown_text,              \* line 137
    jsonFiles,                  \* date -> content of full_campaign_packages_<date>.json
    mdFiles,                    \* date -> content of <date>.md
    trace,                      \* collaborator calls and file writes of the current run
    lastCall,                   \* the last collaborator call, with its failure cause
    runResult                   \* how the last finished run ended

vars == <<sched, active, runs, missed, today, passed03, budget, titles, scores, pc, ti,
          raw_events_data, all_high_potential_events, ei, creative_brief,
          campaign_copy, image_prompt_data, completed_campaigns, markdown_text,
          jsonFiles, mdFiles, trace, lastCall, runResult>>

-----------------------------------------------------------------------------
(* Bounds of the model *)

MaxEvents == 2      \* raw events the sites yield to one run studied alone
SchedEvents == 1    \* raw events the sites yield over the life of a scheduled process
MaxDay == 2         \* days the clock runs through
ImageCalls == 3     \* calls of run_image_creator studied alone
DayEvents == 2      \* raw events the sites yield to the runs of one date

(* Program constants *)

Threshold == 7      \* orchestrator.py line 71
MaxInstances == 1   \* add_job() without max_instances, orchestrator.py line 152

Targets == <<"Sao Paulo", "New York", "Tokyo">>
NumTargets == Len(Targets)
Titles == {"t1", "t2"}
ScoreValues == {6, 7}
ScenarioScores == {9, 5}
Days == 1..MaxDay

-----------------------------------------------------------------------------
(* Python values *)

EmptyDict == [k \in {} |-> 0]
Truthy(d) == DOMAIN d # {}
Has(d, k) == k \in DOMAIN d
Get(d, k, default) == IF k \in DOMAIN d THEN d[k] ELSE default

Ret(v) == [kind |-> "ret", value |-> v]
Raise == [kind |-> "raise", value |-> EmptyDict]

Absent == [exists |-> FALSE, content |-> <<>>]
File(c) == [exists |-> TRUE, content |-> c]

EmptyText == <<>>           \* the str ""
TruthyStr(s) == s # EmptyText
Text(batch) == <<"# Campaigns", batch>>

-----------------------------------------------------------------------------
(* The collaborators.  `cause` says where, if anywhere, the call fails;    *)
(* `response` is what the remote model answers when nothing fails.         *)

ScanCauses == {"None", "RequestException", "ParseError", "PromptMissing",
               "LlmSetupError", "LlmInvokeError"}
LlmCauses == {"None", "PromptMissing", "LlmSetupError", "LlmInvokeError"}
ImageCauses == {"None", "ApiError", "NoImageData", "WriteError"}

run_scanner_for_city(cause, response) ==
    CASE cause = "RequestException" -> Ret(EmptyDict)     \* lines 53-55
      [] cause = "ParseError"       -> Raise              \* lines 48-50, not a RequestException
      [] cause = "PromptMissing"    -> Raise              \* lines 62-64
      [] cause = "LlmSetupError"    -> Raise              \* lines 66-78, outside any try
      [] cause = "LlmInvokeError"   -> Ret(EmptyDict)     \* lines 84-86
      [] OTHER                      -> Ret(response)      \* line 83

run_analyzer_on_events(cause, events_data, response) ==
    IF Get(events_data, "events", <<>>) = <<>> THEN Ret(<<>>)  \* lines 37-40
    ELSE CASE cause = "PromptMissing"  -> Raise                \* lines 47-49
           [] cause = "LlmSetupError"  -> Raise                \* lines 51-88
           [] cause = "LlmInvokeError" -> Ret(<<>>)            \* lines 96-98
           [] OTHER -> Ret(Get(response, "analyzed_events", <<>>))  \* lines 92-95

\* the creative director with its whole body inside the try
run_creative_directorAllCaught(cause, response) ==
    IF cause = "None" THEN Ret(response) ELSE Ret(EmptyDict)

run_creative_director(cause, response) ==
    CASE cause = "PromptMissing"  -> Raise                \* lines 35-37
      [] cause = "LlmSetupError"  -> Raise                \* lines 39-63
      [] cause = "LlmInvokeError" -> Ret(EmptyDict)       \* lines 70-72
      [] OTHER                    -> Ret(response)        \* line 69

\* the copywriter without the try around the LLM invocation
run_copywriterNoTry(cause, response) ==
    IF cause = "None" THEN Ret(response) ELSE Raise

run_copywriter(cause, response) ==
    CASE cause = "PromptMissing"  -> Raise                \* lines 38-40
      [] cause = "LlmSetupError"  -> Raise                \* lines 42-74
      [] cause = "LlmInvokeError" -> Ret(EmptyDict)       \* lines 81-83
      [] OTHER                    -> Ret(response)        \* line 80

\* the visual strategist without the try around the LLM invocation
run_visual_strategistNoTry(cause, response) ==
    IF cause = "None" THEN Ret(response) ELSE Raise

run_visual_strategist(cause, response) ==
    CASE cause = "PromptMissing"  -> Raise                \* lines 38-40
      [] cause = "LlmSetupError"  -> Raise                \* lines 42-66
      [] cause = "LlmInvokeError" -> Ret(EmptyDict)       \* lines 73-75
      [] OTHER                    -> Ret(response)        \* line 72

\* the image creator without its try
run_image_creatorNoTry(cause, prompt_data) ==
    IF ~TruthyStr(Get(prompt_data, "image_prompt", EmptyText))
    THEN Ret([status |-> "Failed", error |-> "No prompt provided."])
    ELSE IF cause = "None"
         THEN Ret([status |-> "Success", filename |-> "campaign_image.png"])
         ELSE Raise

run_image_creator(cause, prompt_data) ==
    IF ~TruthyStr(Get(prompt_data, "image_prompt", EmptyText))
    THEN Ret([status |-> "Failed", error |-> "No prompt provided."])   \* lines 32-35
    ELSE IF cause = "None"
         THEN Ret([status |-> "Success", filename |-> "campaign_image.png"])  \* line 74
         ELSE Ret([status |-> "Failed", error |-> "str(e)"])           \* lines 76-78

\* run_markdown_agent: the set of outcomes.  The fallback of line 58 builds a
\* BaseMessage, the abstract base of the library's message classes: the
\* constructor either yields a message with empty content or rejects the call.
run_markdown_agent(cause, response) ==
    CASE cause = "PromptMissing"  -> {Raise}              \* lines 34-36
      [] cause = "LlmSetupError"  -> {Raise}              \* lines 38-49
      [] cause = "LlmInvokeError" -> {Ret([content |-> EmptyText]), Raise}   \* lines 56-58
      [] OTHER                    -> {Ret(response)}      \* line 55

-----------------------------------------------------------------------------
(* What the remote models answer *)

RawEvent(t) == [event_title |-> t, event_url |-> t]
RawLists(n, ts) == UNION {[1..k -> {RawEvent(t) : t \in ts}] : k \in 0..n}
ScanResponses(n, ts) == {[events |-> l] : l \in RawLists(n, ts)} \cup {EmptyDict}

Scored(city, ev, s) ==
    [event_title |-> ev.event_title, event_url |-> ev.event_url, city |-> city,
     marketing_potential_score |-> s]
Unscored(city, ev) ==
    [event_title |-> ev.event_title, event_url |-> ev.event_url, city |-> city]
AnalyzedOf(city, ev) ==
    {Scored(city, ev, s) : s \in scores} \cup {Unscored(city, ev)}
AnalyzeResponses(city, raw) ==
    {[analyzed_events |-> l] :
        l \in {f \in [1..Len(raw) -> UNION {AnalyzedOf(city, raw[i]) : i \in 1..Len(raw)}] :
                 \A i \in 1..Len(raw) : f[i] \in AnalyzedOf(city, raw[i])}}
    \cup {EmptyDict}

BriefFor(event) == [marketing_angle |-> <<event.event_title, event.city>>]
CopyFor(brief, city) ==
    [slogan |-> Get(brief, "marketing_angle", EmptyText), social_media_post |-> city]
PromptResponses(brief, city) ==
    {[image_prompt |-> <<"prompt", Get(brief, "marketing_angle", EmptyText), city>>],
     [image_prompt |-> EmptyText]}
MarkdownFor(batch) == [content |-> Text(batch)]

-----------------------------------------------------------------------------
(* run_daily_marketing_pipeline, orchestrator.py lines 41-145 *)

\* the filter with a strict comparison
IsHighPotentialStrict(event) ==
    Get(event, "marketing_potential_score", 0) > Threshold

\* a filter that keeps every event that has a score
IsHighPotentialScored(event) ==
    Has(event, "marketing_potential_score")

IsHighPotential(event) ==
    Get(event, "marketing_potential_score", 0) >= Threshold    \* line 71

\* a filter that keeps the first of the qualifying events that are equal
HighPotentialDedup(analyzed_events) ==
    LET q == SelectSeq(analyzed_events, IsHighPotential)
        D[n \in 0..Len(q)] ==
            IF n = 0 THEN <<>>
            ELSE IF \E j \in 1..(n - 1) : q[j] = q[n]
                 THEN D[n - 1]
                 ELSE Append(D[n - 1], q[n])
    IN  D[Len(q)]

RECURSIVE HighPotential(_)
\* the list comprehension of lines 69-72, in list order
HighPotential(analyzed_events) ==
    IF analyzed_events = <<>> THEN <<>>
    ELSE (IF IsHighPotential(Head(analyzed_events))
          THEN <<Head(analyzed_events)>> ELSE <<>>)
         \o HighPotential(Tail(analyzed_events))

\* a package that files the brief under text_assets too
PackageBriefAsText(event, brief, copy, image_creation_result) ==
    [source_event |-> event, creative_brief |-> brief,
     text_assets |-> brief, visual_assets_status |-> image_creation_result]

\* lines 112-117
Package(event, brief, copy, image_creation_result) ==
    [source_event |-> event, creative_brief |-> brief,
     text_assets |-> copy, visual_assets_status |-> image_creation_result]

Call(stage, unit, out) == [stage |-> stage, unit |-> unit, out |-> out]

NoCall == [stage |-> "none", unit |-> 0, cause |-> "None", kind |-> "ret",
           value |-> EmptyDict]

\* a pipeline whose batch is a module-level list: a run that starts finds the
\* packages the run before it left
FreshRunSharedBatch ==
    /\ lastCall' = NoCall
    /\ pc' = "scan"
    /\ ti' = 1
    /\ ei' = 0
    /\ raw_events_data' = EmptyDict
    /\ all_high_potential_events' = <<>>
    /\ completed_campaigns' = completed_campaigns
    /\ creative_brief' = EmptyDict
    /\ campaign_copy' = EmptyDict
    /\ image_prompt_data' = EmptyDict
    /\ markdown_text' = EmptyDict
    /\ trace' = <<>>

\* lines 56-59: the locals of a run that starts
FreshRun ==
    /\ lastCall' = NoCall
    /\ pc' = "scan"
    /\ ti' = 1
    /\ ei' = 0
    /\ raw_events_data' = EmptyDict
    /\ all_high_potential_events' = <<>>
    /\ completed_campaigns' = <<>>
    /\ creative_brief' = EmptyDict
    /\ campaign_copy' = EmptyDict
    /\ image_prompt_data' = EmptyDict
    /\ markdown_text' = EmptyDict
    /\ trace' = <<>>

\* the run goes on: nothing changes for the scheduler
Continues == UNCHANGED <<sched, active, runs, missed, runResult>>

\* The run ends, by `return` or by an exception that leaves the function.
\* main() lines 158-161: the immediate run is a plain call, so its exception
\* leaves main(); after it returns the scheduler is started.  A scheduled run
\* is a job of the scheduler, which takes the job's exception and goes on.
RunEnds(how) ==
    /\ pc' = "done"
    /\ runResult' = [how |-> how, at |-> pc]
    /\ active' = active - 1
    /\ sched' = IF sched = "Immediate" /\ how = "raised" THEN "Crashed" ELSE "Idle"
    /\ UNCHANGED <<runs, missed>>

\* the scan loop without the early return of lines 82-84
AfterTargetNoReturn(worklist) ==
    /\ all_high_potential_events' = worklist
    /\ raw_events_data' = EmptyDict
    /\ IF ti < NumTargets
       THEN pc' = "scan" /\ ti' = ti + 1 /\ ei' = ei /\ Continues
       ELSE IF worklist = <<>>
            THEN pc' = "stage5" /\ ti' = ti /\ ei' = ei /\ Continues
            ELSE pc' = "direct" /\ ti' = ti /\ ei' = 1 /\ Continues

\* a pipeline without the barrier: the campaign stage starts as soon as a
\* target has left something in the worklist
AfterTargetEager(worklist) ==
    /\ all_high_potential_events' = worklist
    /\ raw_events_data' = EmptyDict
    /\ IF worklist # <<>>
       THEN pc' = "direct" /\ ti' = ti /\ ei' = 1 /\ Continues
       ELSE IF ti < NumTargets
            THEN pc' = "scan" /\ ti' = ti + 1 /\ ei' = ei /\ Continues
            ELSE ti' = ti /\ ei' = ei /\ RunEnds("returned")

\* the end of one iteration of the loop of lines 60-79, and lines 82-87
AfterTarget(worklist) ==
    /\ all_high_potential_events' = worklist
    /\ raw_events_data' = EmptyDict
    /\ IF ti < NumTargets
       THEN pc' = "scan" /\ ti' = ti + 1 /\ ei' = ei /\ Continues
       ELSE IF worklist = <<>>
            THEN ti' = ti /\ ei' = ei /\ RunEnds("returned")      \* lines 82-84
            ELSE pc' = "direct" /\ ti' = ti /\ ei' = 1 /\ Continues   \* line 87

\* the end of one iteration of the loop of lines 87-122
AfterEvent(batch) ==
    /\ completed_campaigns' = batch
    /\ creative_brief' = EmptyDict
    /\ campaign_copy' = EmptyDict
    /\ image_prompt_data' = EmptyDict
    /\ IF ei < Len(all_high_potential_events)
       THEN pc' = "direct" /\ ei' = ei + 1
       ELSE pc' = "stage5" /\ ei' = ei
    /\ Continues

\* the scan loop without its try/except: the exception leaves the pipeline
OnTargetExceptionUncaught ==
    /\ RunEnds("raised")
    /\ UNCHANGED <<all_high_potential_events, raw_events_data, ti, ei>>

\* a scan loop with its try/except around the whole loop: the exception of one
\* target ends the loop
OnTargetExceptionBreak ==
    /\ raw_events_data' = EmptyDict
    /\ UNCHANGED <<all_high_potential_events, ti>>
    /\ IF all_high_potential_events = <<>>
       THEN ei' = ei /\ RunEnds("returned")
       ELSE pc' = "direct" /\ ei' = 1 /\ Continues

\* lines 78-79: `except Exception` of the scan loop logs and goes on
OnTargetException == AfterTarget(all_high_potential_events)

\* the campaign loop without its try/except: the exception leaves the pipeline
OnEventExceptionUncaught ==
    /\ RunEnds("raised")
    /\ UNCHANGED <<completed_campaigns, creative_brief, campaign_copy,
                   image_prompt_data, ei>>

\* a campaign loop that tries the event again after an exception
OnEventExceptionRetry ==
    /\ pc' = "direct"
    /\ creative_brief' = EmptyDict
    /\ campaign_copy' = EmptyDict
    /\ image_prompt_data' = EmptyDict
    /\ UNCHANGED <<completed_campaigns, ei>>
    /\ Continues

\* a campaign loop with its try/except around the whole loop: the exception of
\* one event ends the loop
OnEventExceptionBreak ==
    /\ pc' = "stage5"
    /\ UNCHANGED <<completed_campaigns, creative_brief, campaign_copy,
                   image_prompt_data, ei>>
    /\ Continues

\* lines 121-122: `except Exception` of the campaign loop logs and goes on
OnEventException == AfterEvent(completed_campaigns)

\* a gate that lets every non-empty scan result through to the analysis
HasEventsAnyDict(data) == Truthy(data)

\* line 65: `raw_events_data and raw_events_data.get("events")`
HasEvents(data) == Truthy(data) /\ Get(data, "events", <<>>) # <<>>

\* lines 62-65 and 76-79
Scan ==
    /\ pc = "scan"
    /\ \E cause \in ScanCauses, response \in ScanResponses(budget, titles) :
        LET out == run_scanner_for_city(cause, response)
            data == out.value
            found == out.kind = "ret" /\ HasEvents(data)               \* line 65
        IN  /\ cause # "None" => response = EmptyDict
            /\ lastCall' = [stage |-> "scan", unit |-> ti, cause |-> cause, kind |-> out.kind,
                          value |-> out.value]
            /\ trace' = Append(trace, Call("scan", ti, "done"))
            /\ budget' = budget - Len(Get(data, "events", <<>>))
            /\ IF out.kind = "raise"
               THEN OnTargetException
               ELSE IF found
                    THEN /\ pc' = "analyze"
                         /\ raw_events_data' = data
                         /\ UNCHANGED <<ti, ei, all_high_potential_events>>
                         /\ Continues
                    ELSE AfterTarget(all_high_potential_events)        \* line 77
    /\ UNCHANGED <<today, passed03, titles, scores, creative_brief, campaign_copy,
                   image_prompt_data, completed_campaigns, markdown_text,
                   jsonFiles, mdFiles>>

\* lines 66-75 and 78-79
Analyze ==
    /\ pc = "analyze"
    /\ \E cause \in LlmCauses,
          response \in AnalyzeResponses(Targets[ti], raw_events_data["events"]) :
        LET out == run_analyzer_on_events(cause, raw_events_data, response)
        IN  /\ cause # "None" => response = EmptyDict
            /\ lastCall' = [stage |-> "analyze", unit |-> ti, cause |-> cause, kind |-> out.kind,
                          value |-> out.value]
            /\ trace' = Append(trace, Call("analyze", ti, "done"))
            /\ IF out.kind = "raise"
               THEN OnTargetException
               ELSE AfterTarget(all_high_potential_events \o HighPotential(out.value))
    /\ UNCHANGED <<today, passed03, budget, titles, scores, creative_brief, campaign_copy,
                   image_prompt_data, completed_campaigns, markdown_text,
                   jsonFiles, mdFiles>>

\* the event of the current iteration, line 87
Event == all_high_potential_events[ei]

\* the campaign loop without the check of line 95
BriefMissingIgnored(brief) == FALSE

\* line 95: `if not creative_brief`
BriefMissing(brief) == ~Truthy(brief)

\* lines 93-97 and 121-122
Direct ==
    /\ pc = "direct"
    /\ \E cause \in LlmCauses :
        LET out == run_creative_director(cause, BriefFor(Event))
        IN  /\ lastCall' = [stage |-> "direct", unit |-> ei, cause |-> cause, kind |-> out.kind,
                          value |-> out.value]
            /\ trace' = Append(trace, Call("direct", ei,
                            IF out.kind = "raise" THEN "raise"
                            ELSE IF Truthy(out.value) THEN "ok" ELSE "empty"))
            /\ IF out.kind = "ret" /\ ~BriefMissing(out.value)
               THEN /\ pc' = "copy"
                    /\ creative_brief' = out.value
                    /\ UNCHANGED <<ei, campaign_copy, image_prompt_data, completed_campaigns>>
                    /\ Continues
               ELSE IF out.kind = "raise"
                    THEN OnEventException
                    ELSE AfterEvent(completed_campaigns)   \* line 97, `continue`
    /\ UNCHANGED <<today, passed03, budget, titles, scores, ti, raw_events_data,
                   all_high_potential_events, markdown_text, jsonFiles, mdFiles>>

\* lines 101 and 121-122
Copy ==
    /\ pc = "copy"
    /\ \E cause \in LlmCauses :
        LET out == run_copywriter(cause, CopyFor(creative_brief, Event["city"]))
        IN  /\ lastCall' = [stage |-> "copy", unit |-> ei, cause |-> cause, kind |-> out.kind,
                          value |-> out.value]
            /\ trace' = Append(trace, Call("copy", ei,
                            IF out.kind = "raise" THEN "raise"
                            ELSE IF Truthy(out.value) THEN "ok" ELSE "empty"))
            /\ IF out.kind = "ret"
               THEN /\ pc' = "visual"
                    /\ campaign_copy' = out.value
                    /\ UNCHANGED <<ei, creative_brief, image_prompt_data, completed_campaigns>>
                    /\ Continues
               ELSE OnEventException
    /\ UNCHANGED <<today, passed03, budget, titles, scores, ti, raw_events_data,
                   all_high_potential_events, markdown_text, jsonFiles, mdFiles>>

\* a campaign loop that creates the image whatever the visual strategist gave
HasPromptAlways(prompt_data) == TRUE

\* line 106
HasPrompt(prompt_data) ==
    Truthy(prompt_data) /\ TruthyStr(Get(prompt_data, "image_prompt", EmptyText))

\* a campaign loop that skips the event when there is no image prompt
OnNoPromptSkip == AfterEvent(completed_campaigns)

\* a campaign loop that puts the package of an event without image prompt at
\* the head of the batch
OnNoPromptPrepend ==
    AfterEvent(<<Package(Event, creative_brief, campaign_copy, EmptyDict)>>
               \o completed_campaigns)

\* lines 105 and 108-118: no image prompt; the event is packaged with an empty
\* image_creation_result
OnNoPrompt ==
    AfterEvent(Append(completed_campaigns,
                      Package(Event, creative_brief, campaign_copy, EmptyDict)))

\* lines 102-109, and 112-118 when there is no prompt, and 121-122
Visual ==
    /\ pc = "visual"
    /\ \E cause \in LlmCauses,
          response \in PromptResponses(creative_brief, Event["city"]) :
        LET out == run_visual_strategist(cause, response)
        IN  /\ cause # "None" => response["image_prompt"] = EmptyText
            /\ lastCall' = [stage |-> "visual", unit |-> ei, cause |-> cause, kind |-> out.kind,
                          value |-> out.value]
            /\ trace' = Append(trace, Call("visual", ei,
                            IF out.kind = "raise" THEN "raise"
                            ELSE IF HasPrompt(out.value) THEN "ok" ELSE "empty"))
            /\ IF out.kind = "raise"
               THEN OnEventException
               ELSE IF HasPrompt(out.value)
                    THEN /\ pc' = "image"
                         /\ image_prompt_data' = out.value
                         /\ UNCHANGED <<ei, creative_brief, campaign_copy, completed_campaigns>>
                         /\ Continues
                    ELSE OnNoPrompt
    /\ UNCHANGED <<today, passed03, budget, titles, scores, ti, raw_events_data,
                   all_high_potential_events, markdown_text, jsonFiles, mdFiles>>

\* lines 107 and 112-118
Image ==
    /\ pc = "image"
    /\ \E cause \in ImageCauses :
        LET out == run_image_creator(cause, image_prompt_data)
        IN  /\ lastCall' = [stage |-> "image", unit |-> ei, cause |-> cause, kind |-> out.kind,
                          value |-> out.value]
            /\ trace' = Append(trace, Call("image", ei,
                            IF out.kind = "raise" THEN "raise"
                            ELSE IF out.value["status"] = "Success" THEN "ok" ELSE "empty"))
            /\ IF out.kind = "raise"
               THEN OnEventException
               ELSE AfterEvent(Append(completed_campaigns,
                        Package(Event, creative_brief, campaign_copy, out.value)))
    /\ UNCHANGED <<today, passed03, budget, titles, scores, ti, raw_events_data,
                   all_high_potential_events, markdown_text, jsonFiles, mdFiles>>

-----------------------------------------------------------------------------
(* Persistence, lines 124-141.  open() either succeeds or raises OSError.  *)

IoOutcomes == {"ok", "OSError"}

\* a persistence step that writes the JSON file whatever the batch holds
ShouldSaveJsonAlways(batch) == TRUE

\* line 125: `if completed_campaigns`
ShouldSaveJson(batch) == batch # <<>>

\* a JSON write inside its own try/except: its failure is logged and the
\* markdown step follows
SaveJsonBestEffort ==
    /\ pc = "stage5"
    /\ pc' = "markdown"
    /\ IF ShouldSaveJson(completed_campaigns)
       THEN \E io \in IoOutcomes :
              /\ trace' = Append(trace, Call("json_write", today,
                                 IF io = "ok" THEN "ok" ELSE "raise"))
              /\ jsonFiles' = IF io = "ok"
                              THEN [jsonFiles EXCEPT ![today] = File(completed_campaigns)]
                              ELSE jsonFiles
       ELSE UNCHANGED <<trace, jsonFiles>>
    /\ Continues
    /\ UNCHANGED <<today, passed03, budget, titles, scores, ti, ei, raw_events_data,
                   all_high_potential_events, creative_brief, campaign_copy,
                   image_prompt_data, completed_campaigns, markdown_text,
                   mdFiles, lastCall>>

\* lines 125-134
SaveJson ==
    /\ pc = "stage5"
    /\ IF ShouldSaveJson(completed_campaigns)
       THEN \E io \in IoOutcomes :
              /\ trace' = Append(trace, Call("json_write", today,
                                 IF io = "ok" THEN "ok" ELSE "raise"))
              /\ IF io = "ok"
                 THEN /\ jsonFiles' = [jsonFiles EXCEPT ![today] = File(completed_campaigns)]
                      /\ pc' = "markdown"
                      /\ Continues
                 ELSE /\ jsonFiles' = jsonFiles
                      /\ RunEnds("raised")                        \* line 129 raises
       ELSE /\ pc' = "markdown"                                   \* line 134
            /\ UNCHANGED <<trace, jsonFiles>>
            /\ Continues
    /\ UNCHANGED <<today, passed03, budget, titles, scores, ti, ei, raw_events_data,
                   all_high_potential_events, creative_brief, campaign_copy,
                   image_prompt_data, completed_campaigns, markdown_text,
                   mdFiles, lastCall>>

\* line 137
Markdown ==
    /\ pc = "markdown"
    /\ \E cause \in LlmCauses :
       \E out \in run_markdown_agent(cause, MarkdownFor(completed_campaigns)) :
            /\ lastCall' = [stage |-> "markdown", unit |-> 0, cause |-> cause, kind |-> out.kind,
                          value |-> out.value]
            /\ trace' = Append(trace, Call("markdown", 0,
                            IF out.kind = "raise" THEN "raise"
                            ELSE IF out.value["content"] = EmptyText THEN "empty" ELSE "ok"))
            /\ IF out.kind = "ret"
               THEN /\ pc' = "mdwrite"
                    /\ markdown_text' = out.value
                    /\ Continues
               ELSE /\ markdown_text' = markdown_text
                    /\ RunEnds("raised")
    /\ UNCHANGED <<today, passed03, budget, titles, scores, ti, ei, raw_events_data,
                   all_high_potential_events, creative_brief, campaign_copy,
                   image_prompt_data, completed_campaigns, jsonFiles, mdFiles>>

\* a write that leaves the file alone when there is no text
WriteMarkdownUnlessEmpty(files, date, message) ==
    IF message["content"] = EmptyText THEN files
    ELSE [files EXCEPT ![date] = File(message["content"])]

\* a write that opens the file for appending
WriteMarkdownAppend(files, date, message) ==
    [files EXCEPT ![date] = File(<<files[date].content, message["content"]>>)]

\* lines 139-140: open(..., "w") and f.write(markdown_text.content)
WriteMarkdown(files, date, message) ==
    [files EXCEPT ![date] = File(message["content"])]

\* lines 138-145
SaveMarkdown ==
    /\ pc = "mdwrite"
    /\ \E io \in IoOutcomes :
          /\ trace' = Append(trace, Call("md_write", today,
                             IF io = "ok" THEN "ok" ELSE "raise"))
          /\ IF io = "ok"
             THEN /\ mdFiles' = WriteMarkdown(mdFiles, today, markdown_text)
                  /\ RunEnds("returned")
             ELSE /\ mdFiles' = mdFiles
                  /\ RunEnds("raised")                            \* line 139 raises
    /\ UNCHANGED <<today, passed03, budget, titles, scores, ti, ei, raw_events_data,
                   all_high_potential_events, creative_brief, campaign_copy,
                   image_prompt_data, completed_campaigns, markdown_text,
                   jsonFiles, lastCall>>

-----------------------------------------------------------------------------
(* main(), lines 150-163, and the clock *)

\* a scheduler that starts a due job however many runs are in progress
CanStartAlways(n) == TRUE

\* the scheduler starts a due job unless MaxInstances runs of it are in progress
CanStart(n) == n < MaxInstances

\* a scheduler started in the background before the immediate run: it takes
\* the trigger whenever no job of its own is running
Trigger0300Background ==
    /\ ~passed03
    /\ passed03' = TRUE
    /\ IF sched # "Running"
       THEN /\ sched' = "Running"
            /\ active' = 1
            /\ runs' = runs + 1
            /\ FreshRun
            /\ UNCHANGED <<missed, runResult>>
       ELSE /\ missed' = missed + 1
            /\ UNCHANGED <<sched, active, runs, runResult, pc, ti, ei, raw_events_data,
                           all_high_potential_events, completed_campaigns,
                           creative_brief, campaign_copy, image_prompt_data,
                           markdown_text, trace, lastCall>>
    /\ UNCHANGED <<today, budget, titles, scores, jsonFiles, mdFiles>>

\* 03:00 of `today`: the cron trigger of line 152
Trigger0300 ==
    /\ ~passed03
    /\ passed03' = TRUE
    /\ IF sched \in {"Idle", "Running"}                    \* scheduler.start() was reached
       THEN IF CanStart(active)
            THEN /\ sched' = "Running"
                 /\ active' = active + 1
                 /\ runs' = runs + 1
                 /\ FreshRun
                 /\ UNCHANGED <<missed, runResult>>
            ELSE /\ missed' = missed + 1
                 /\ UNCHANGED <<sched, active, runs, runResult, pc, ti, ei, raw_events_data,
                                all_high_potential_events, completed_campaigns,
                                creative_brief, campaign_copy, image_prompt_data,
                                markdown_text, trace>>
       ELSE UNCHANGED <<sched, active, runs, missed, runResult, pc, ti, ei, raw_events_data,
                        all_high_potential_events, completed_campaigns,
                        creative_brief, campaign_copy, image_prompt_data,
                        markdown_text, trace>>
    /\ (sched \in {"Idle", "Running"} /\ CanStart(active)) \/ lastCall' = lastCall
    /\ UNCHANGED <<today, budget, titles, scores, jsonFiles, mdFiles>>

Midnight ==
    /\ passed03
    /\ today < MaxDay
    /\ today' = today + 1
    /\ passed03' = FALSE
    /\ UNCHANGED <<sched, active, runs, missed, budget, titles, scores, pc, ti, raw_events_data,
                   all_high_potential_events, ei, creative_brief, campaign_copy,
                   image_prompt_data, completed_campaigns, markdown_text,
                   jsonFiles, mdFiles, trace, lastCall, runResult>>

\* main() has built the scheduler and calls the pipeline (line 158)
Start(events, published, past03) ==
    /\ sched = "Immediate"
    /\ active = 1
    /\ runs = 1
    /\ missed = 0
    /\ today = 1
    /\ passed03 \in past03
    /\ budget = events
    /\ titles = published
    /\ pc = "scan"
    /\ ti = 1
    /\ ei = 0
    /\ raw_events_data = EmptyDict
    /\ all_high_potential_events = <<>>
    /\ completed_campaigns = <<>>
    /\ creative_brief = EmptyDict
    /\ campaign_copy = EmptyDict
    /\ image_prompt_data = EmptyDict
    /\ markdown_text = EmptyDict
    /\ jsonFiles = [d \in Days |-> Absent]
    /\ mdFiles = [d \in Days |-> Absent]
    /\ trace = <<>>
    /\ lastCall = NoCall
    /\ runResult = [how |-> "none", at |-> "none"]

Init == Start(SchedEvents, {"t1"}, BOOLEAN) /\ scores = ScoreValues

Next ==
    \/ Scan
    \/ Analyze
    \/ Direct
    \/ Copy
    \/ Visual
    \/ Image
    \/ SaveJson
    \/ Markdown
    \/ SaveMarkdown
    \/ Trigger0300
    \/ Midnight

\* the process: the immediate run, then the scheduler's daily runs
Spec == Init /\ [][Next]_vars

\* one run of the pipeline (the immediate one), studied alone with more events
InitRun == Start(MaxEvents, Titles, {TRUE}) /\ scores = ScoreValues

NextRun ==
    \/ Scan
    \/ Analyze
    \/ Direct
    \/ Copy
    \/ Visual
    \/ Image
    \/ SaveJson
    \/ Markdown
    \/ SaveMarkdown

SpecRun == InitRun /\ [][NextRun]_vars

\* one run over sites that all carry the same title
InitOneTitle == Start(MaxEvents, {"t1"}, {TRUE}) /\ scores = ScoreValues

SpecOneTitle == InitOneTitle /\ [][NextRun]_vars

\* a process started before 03:00: the immediate run and the scheduled run of
\* the same date
InitSameDay == Start(DayEvents, {"t1"}, {FALSE}) /\ scores = ScoreValues

NextSameDay ==
    \/ Scan
    \/ Analyze
    \/ Direct
    \/ Copy
    \/ Visual
    \/ Image
    \/ SaveJson
    \/ Markdown
    \/ SaveMarkdown
    \/ Trigger0300

SpecSameDay == InitSameDay /\ [][NextSameDay]_vars

\* the immediate run and the run of that day's trigger, with every collaborator
\* call and file write of a run in progress coming to its end (by return or by
\* an exception); the trigger itself is left free
InitLive == Start(SchedEvents, {"t1"}, {FALSE}) /\ scores = ScoreValues

SpecLive == InitLive /\ [][NextSameDay]_vars /\ WF_<<pc, trace>>(NextRun)

\* one run in which the analyser's model scores events 9 or 5
InitScenario == Start(MaxEvents, Titles, {TRUE}) /\ scores = ScenarioScores

SpecScenario == InitScenario /\ [][NextRun]_vars

\* run_image_creator studied alone: the dicts it is given, with the key
\* "image_prompt" absent, empty or a prompt text
ImageInputs ==
    {EmptyDict, [image_prompt |-> EmptyText]}
    \cup {[image_prompt |-> <<"prompt", <<t, Targets[i]>>, Targets[i]>>] :
              t \in Titles, i \in 1..NumTargets}

\* one call of run_image_creator(prompt_data)
ImageCall ==
    /\ pc = "unit"
    /\ Len(trace) < ImageCalls
    /\ \E cause \in ImageCauses, prompt_data \in ImageInputs :
        LET out == run_image_creator(cause, prompt_data)
        IN  /\ image_prompt_data' = prompt_data
            /\ lastCall' = [stage |-> "image", unit |-> Len(trace) + 1, cause |-> cause,
                            kind |-> out.kind, value |-> out.value]
            /\ trace' = Append(trace, Call("image", Len(trace) + 1,
                            IF out.kind = "raise" THEN "raise"
                            ELSE IF Get(out.value, "status", EmptyText) = "Success"
                                 THEN "ok" ELSE "empty"))
    /\ UNCHANGED <<sched, active, runs, missed, today, passed03, budget, titles, scores,
                   pc, ti, raw_events_data, all_high_potential_events, ei, creative_brief,
                   campaign_copy, completed_campaigns, markdown_text, jsonFiles, mdFiles,
                   runResult>>

InitImage ==
    /\ sched = "Idle"
    /\ active = 0
    /\ runs = 0
    /\ missed = 0
    /\ today = 1
    /\ passed03 = TRUE
    /\ budget = 0
    /\ titles = Titles
    /\ scores = ScoreValues
    /\ pc = "unit"
    /\ ti = 1
    /\ ei = 0
    /\ raw_events_data = EmptyDict
    /\ all_high_potential_events = <<>>
    /\ completed_campaigns = <<>>
    /\ creative_brief = EmptyDict
    /\ campaign_copy = EmptyDict
    /\ image_prompt_data = EmptyDict
    /\ markdown_text = EmptyDict
    /\ jsonFiles = [d \in Days |-> Absent]
    /\ mdFiles = [d \in Days |-> Absent]
    /\ trace = <<>>
    /\ lastCall = NoCall
    /\ runResult = [how |-> "none", at |-> "none"]

SpecImage == InitImage /\ [][ImageCall]_vars

-----------------------------------------------------------------------------
(* Properties *)

ScanCount(tr, t) ==
    Cardinality({i \in DOMAIN tr : tr[i].stage = "scan" /\ tr[i].unit = t})

ScoreAtLeast7(event) ==
    /\ "marketing_potential_score" \in DOMAIN event
    /\ event["marketing_potential_score"] >= 7

\* C1 (target isolation): whatever the scan or analyze call for target ti
\* does (returns events, returns the empty value, raises), the loop goes on to
\* the next target and the run does not end by an exception; the worklist
\* keeps the events of the earlier targets and gains the events of score >= 7
\* of an analysis that returned; every target reached so far has been scanned
\* exactly once and no later target has been scanned.
C1_TargetIsolation ==
    [][(pc \in {"scan", "analyze"} /\ trace' # trace) =>
        /\ runResult'.how # "raised"
        /\ IF pc' = "analyze"
           THEN pc = "scan" /\ ti' = ti /\ lastCall'.kind = "ret"
           ELSE IF ti < NumTargets
                THEN pc' = "scan" /\ ti' = ti + 1
                ELSE ti' = ti /\ pc' \in {"direct", "done"}
        /\ IF pc = "analyze" /\ lastCall'.kind = "ret"
           THEN all_high_potential_events' =
                    all_high_potential_events \o SelectSeq(lastCall'.value, ScoreAtLeast7)
           ELSE all_high_potential_events' = all_high_potential_events
        /\ \A t \in 1..NumTargets :
              ScanCount(trace', t) = IF t <= ti THEN 1 ELSE 0
      ]_vars

\* C1 witness: the scan of the first target yielded nothing, the second target
\* was analysed and its event is in the worklist, the scan of the last target
\* raised, and the run goes on to the campaign stage.
C1_Witness ==
    /\ pc = "direct"
    /\ lastCall.stage = "scan" /\ lastCall.unit = NumTargets /\ lastCall.kind = "raise"
    /\ [i \in DOMAIN trace |-> <<trace[i].stage, trace[i].unit>>]
          = <<<<"scan", 1>>, <<"scan", 2>>, <<"analyze", 2>>, <<"scan", 3>>>>
    /\ Len(all_high_potential_events) = 1
    /\ all_high_potential_events[1]["city"] = Targets[2]

Called(stage, i) ==
    \E k \in DOMAIN trace : trace[k].stage = stage /\ trace[k].unit = i
CalledWith(stage, i, out) ==
    \E k \in DOMAIN trace : trace[k] = Call(stage, i, out)
PackagesOf(event) ==
    Cardinality({k \in DOMAIN completed_campaigns :
                    completed_campaigns[k]["source_event"] = event})

\* C2 (hard skip): for a worklist event whose Direct call returned an empty
\* brief, none of Copy, VisualStrategy, ImageCreate is invoked, and the batch
\* holds no package for it: the packages with that source_event are at most as
\* many as the other worklist entries equal to it whose brief was not empty.
C2_HardSkip ==
    \A i \in DOMAIN all_high_potential_events :
        CalledWith("direct", i, "empty") =>
            /\ ~Called("copy", i) /\ ~Called("visual", i) /\ ~Called("image", i)
            /\ PackagesOf(all_high_potential_events[i]) <=
                 Cardinality({j \in DOMAIN all_high_potential_events :
                                /\ all_high_potential_events[j] = all_high_potential_events[i]
                                /\ ~CalledWith("direct", j, "empty")})

\* C2 witness: the first event got an empty brief, the second, another event,
\* was packaged, and the campaign loop is over.
C2_Witness ==
    /\ pc = "stage5"
    /\ Len(all_high_potential_events) = 2
    /\ all_high_potential_events[1] # all_high_potential_events[2]
    /\ CalledWith("direct", 1, "empty")
    /\ Len(completed_campaigns) = 1
    /\ completed_campaigns[1]["source_event"] = all_high_potential_events[2]

\* the campaign loop has finished with worklist entry i
Handled(i) ==
    \/ pc \in {"stage5", "markdown", "mdwrite"}
    \/ pc = "done" /\ all_high_potential_events # <<>>
    \/ pc \in {"direct", "copy", "visual", "image"} /\ i < ei

BriefedEvents ==
    {i \in DOMAIN all_high_potential_events : Handled(i) /\ CalledWith("direct", i, "ok")}

\* the events that got a brief and whose Copy and VisualStrategy calls returned
DegradedEvents ==
    {i \in BriefedEvents : ~CalledWith("copy", i, "raise") /\ ~CalledWith("visual", i, "raise")}

\* the k-th smallest element of a set of indices
Nth(S, k) == CHOOSE i \in S : Cardinality({j \in S : j < i}) = k - 1

PackageFields == {"source_event", "creative_brief", "text_assets", "visual_assets_status"}

SoftDegradationOf(D) ==
    /\ Len(completed_campaigns) = Cardinality(D)
    /\ \A k \in DOMAIN completed_campaigns :
         LET i == Nth(D, k)
             p == completed_campaigns[k]
         IN  /\ DOMAIN p = PackageFields
             /\ p["source_event"] = all_high_potential_events[i]
             /\ Truthy(p["creative_brief"])
             /\ (p["text_assets"] = EmptyDict) <=> CalledWith("copy", i, "empty")
             /\ IF CalledWith("visual", i, "empty")
                THEN p["visual_assets_status"] = EmptyDict /\ ~Called("image", i)
                ELSE /\ DOMAIN p["visual_assets_status"] \in
                            {{"status", "filename"}, {"status", "error"}}
                     /\ (p["visual_assets_status"]["status"] = "Failed")
                            <=> CalledWith("image", i, "empty")
                     /\ (p["visual_assets_status"]["status"] = "Success")
                            <=> CalledWith("image", i, "ok")

Range(seq) == {seq[k] : k \in DOMAIN seq}

\* C4 (threshold filter): when the analysis of a target returns, the events
\* appended to the worklist are the analysed events of score >= 7, in the
\* analyser's order and after the entries already there; an event of score 7
\* is among them, an event of score 6 or without a score is not; this is so
\* for every target.
C4_ThresholdFilter ==
    [][(pc = "analyze" /\ trace' # trace /\ lastCall'.kind = "ret") =>
        LET analyzed == lastCall'.value
            before == Len(all_high_potential_events)
            added == SubSeq(all_high_potential_events', before + 1,
                            Len(all_high_potential_events'))
        IN  /\ SubSeq(all_high_potential_events', 1, before) = all_high_potential_events
            /\ added = SelectSeq(analyzed, ScoreAtLeast7)
            /\ \A k \in DOMAIN analyzed :
                 /\ Get(analyzed[k], "marketing_potential_score", 0) = 7
                        => analyzed[k] \in Range(added)
                 /\ Get(analyzed[k], "marketing_potential_score", 0) = 6
                        => analyzed[k] \notin Range(added)
                 /\ "marketing_potential_score" \notin DOMAIN analyzed[k]
                        => analyzed[k] \notin Range(added)
      ]_vars

\* C4 witness: an analysis returned an event of score 6 and then one of score
\* 7, and the worklist holds the second alone.
C4_Witness ==
    /\ lastCall.stage = "analyze" /\ lastCall.kind = "ret"
    /\ Len(lastCall.value) = 2
    /\ Get(lastCall.value[1], "marketing_potential_score", 0) = 6
    /\ Get(lastCall.value[2], "marketing_potential_score", 0) = 7
    /\ all_high_potential_events = <<lastCall.value[2]>>

LlmStages == {"scan", "analyze", "direct", "copy", "visual", "markdown"}

\* the value a stage returns for a failure it handles
IsSentinel(stage, value) ==
    CASE stage = "analyze"  -> value = <<>>
      [] stage = "image"    -> DOMAIN value = {"status", "error"} /\ value["status"] = "Failed"
      [] stage = "markdown" -> DOMAIN value = {"content"} /\ value["content"] = EmptyText
      [] OTHER              -> value = EmptyDict

PersistencePlaces == {"stage5", "markdown", "mdwrite"}

C7_NoOverlap ==
    /\ active <= 1
    /\ active = 1 <=> pc # "done"
    /\ active = 1 <=> sched \in {"Immediate", "Running"}
    /\ runs + missed <= 1 + today

\* C7 witness: a daily trigger fired while a scheduled run was in progress
\* and was skipped; that run is still the only one.
C7_Witness ==
    /\ sched = "Running"
    /\ runs = 2
    /\ missed = 1
    /\ active = 1
    /\ pc = "markdown"

Wrote(stage) == \E k \in DOMAIN trace : trace[k].stage = stage /\ trace[k].out = "ok"
Attempted(stage) == \E k \in DOMAIN trace : trace[k].stage = stage
NoFile(files) == \A d \in Days : ~files[d].exists

\* C8 as stated (empty batch): every run that ends with an empty batch has
\* written no JSON file, invoked the markdown collaborator and written the
\* markdown file.
C8_Original ==
    (pc = "done" /\ completed_campaigns = <<>>) =>
        /\ NoFile(jsonFiles)
        /\ Attempted("markdown")
        /\ Wrote("md_write")

\* C8 amended: a run that ends with an empty batch has not written (nor
\* tried to write) the JSON file.  If its worklist was not empty, the markdown
\* collaborator was invoked once, with the empty batch; when it returned, the
\* write of <date>.md was attempted with the returned text and, when the write
\* succeeded, the file holds that text; when it raised, the run ended by that
\* exception with no markdown file.  If the worklist was empty the run ended
\* before persistence: no markdown call and no markdown file.
C8_EmptyBatch ==
    (pc = "done" /\ completed_campaigns = <<>>) =>
        /\ NoFile(jsonFiles) /\ ~Attempted("json_write")
        /\ IF all_high_potential_events = <<>>
           THEN ~Attempted("markdown") /\ ~Attempted("md_write") /\ NoFile(mdFiles)
           ELSE /\ lastCall.stage = "markdown"
                /\ Cardinality({k \in DOMAIN trace : trace[k].stage = "markdown"}) = 1
                /\ lastCall.cause = "None" => lastCall.value = [content |-> Text(<<>>)]
                /\ IF lastCall.kind = "ret"
                   THEN /\ Attempted("md_write")
                        /\ IF Wrote("md_write")
                           THEN /\ mdFiles[today] = File(lastCall.value["content"])
                                /\ runResult.how = "returned"
                           ELSE NoFile(mdFiles) /\ runResult = [how |-> "raised", at |-> "mdwrite"]
                   ELSE /\ ~Attempted("md_write") /\ NoFile(mdFiles)
                        /\ runResult = [how |-> "raised", at |-> "markdown"]

\* C8 witness: a run whose only event got no brief has ended with an empty
\* batch, no JSON file and a markdown file rendered from the empty batch.
C8_Witness ==
    /\ pc = "done"
    /\ completed_campaigns = <<>>
    /\ Len(all_high_potential_events) = 1
    /\ CalledWith("direct", 1, "empty")
    /\ NoFile(jsonFiles)
    /\ mdFiles[today] = File(Text(<<>>))

\* C9 (empty worklist): a run in which no target yields an event of score
\* >= 7 returns after the scan loop: Direct, Copy, VisualStrategy, ImageCreate
\* and MarkdownRender are not invoked and neither file is written.
C9_EmptyWorklist ==
    (pc \notin {"scan", "analyze"} /\ all_high_potential_events = <<>>) =>
        /\ pc = "done"
        /\ runResult = [how |-> "returned", at |-> lastCall.stage]
        /\ \A k \in DOMAIN trace : trace[k].stage \in {"scan", "analyze"}
        /\ lastCall.stage \in {"scan", "analyze"}
        /\ NoFile(jsonFiles) /\ NoFile(mdFiles)

\* C9 witness: two targets were analysed and none of their events reached the
\* threshold; the run has ended with an empty worklist.
C9_Witness ==
    /\ pc = "done"
    /\ all_high_potential_events = <<>>
    /\ Called("analyze", 1) /\ Called("analyze", 3)
    /\ ~Called("analyze", 2)
    /\ lastCall.stage = "analyze" /\ Len(lastCall.value) = 1
    /\ Get(lastCall.value[1], "marketing_potential_score", 0) = 6

Last(tr) == tr[Len(tr)]

CampaignPlaces == {"direct", "copy", "visual", "image"}

\* C12 (event-level containment): when a call of the per-event sequence of
\* worklist entry ei raises, the run does not end: the batch is left as it
\* was, packages of earlier events included, with no package for that event;
\* the worklist is unchanged and the loop goes on with the next entry, if
\* any, whose Direct call is still to come, and to persistence after the last
\* entry.  At the end of the loop every worklist entry has had its Direct call.
C12_EventContainment ==
    [][(pc \in CampaignPlaces /\ trace' # trace) =>
        /\ lastCall'.kind = "raise" =>
              /\ runResult' = runResult
              /\ completed_campaigns' = completed_campaigns
              /\ all_high_potential_events' = all_high_potential_events
              /\ IF ei < Len(all_high_potential_events)
                 THEN /\ pc' = "direct" /\ ei' = ei + 1
                      /\ \A k \in DOMAIN trace' : trace'[k].unit = ei + 1 =>
                            trace'[k].stage \in {"scan", "analyze"}
                 ELSE pc' = "stage5"
        /\ pc' = "stage5" =>
              \A i \in DOMAIN all_high_potential_events :
                  Cardinality({k \in DOMAIN trace' :
                        trace'[k].stage = "direct" /\ trace'[k].unit = i}) = 1
      ]_vars

\* C12 witness: the visual-strategy call of the first event raised after its
\* copy call had returned; the second event was processed and its package is
\* the only one of the batch.
C12_Witness ==
    /\ pc = "stage5"
    /\ Len(all_high_potential_events) = 2
    /\ CalledWith("copy", 1, "ok") /\ CalledWith("visual", 1, "raise")
    /\ ~Called("image", 1)
    /\ CalledWith("direct", 2, "ok")
    /\ Len(completed_campaigns) = 1
    /\ completed_campaigns[1]["source_event"] = all_high_potential_events[2]
    /\ all_high_potential_events[1] # all_high_potential_events[2]

\* what the copywriter and the visual strategist answer for (brief, city)
CopyOf(brief, city) == [slogan |-> brief["marketing_angle"], social_media_post |-> city]
PromptOf(brief, city) == [image_prompt |-> <<"prompt", brief["marketing_angle"], city>>]

\* the package of worklist entry i, an entry of DegradedEvents
PackageOf(i) ==
    completed_campaigns[Cardinality({j \in DegradedEvents : j <= i})]

ReturnedAmong(B) ==
    {i \in B : ~CalledWith("copy", i, "raise") /\ ~CalledWith("visual", i, "raise")}

\* C13 for the handled events B that got a brief and those, D, among them
\* whose two calls returned
CopyAndVisualOf(B, D) ==
    /\ \A i \in B :
          /\ Cardinality({k \in DOMAIN trace : trace[k].stage = "copy" /\ trace[k].unit = i}) = 1
          /\ Cardinality({k \in DOMAIN trace : trace[k].stage = "visual" /\ trace[k].unit = i})
                 = IF i \in D THEN 1 ELSE IF CalledWith("copy", i, "raise") THEN 0 ELSE 1
          /\ i \in D =>
                LET p == completed_campaigns[Cardinality({j \in D : j <= i})]
                    event == all_high_potential_events[i]
                IN  /\ p["source_event"] = event
                    /\ p["text_assets"] =
                          IF CalledWith("copy", i, "ok")
                          THEN CopyOf(p["creative_brief"], event["city"])
                          ELSE EmptyDict
    /\ Len(completed_campaigns) = Cardinality(D)
    /\ pc = "visual" =>
          /\ campaign_copy \in {EmptyDict, CopyOf(creative_brief, Event["city"])}
          /\ lastCall.stage = "copy" /\ lastCall.unit = ei /\ lastCall.kind = "ret"
          /\ lastCall.cause = "LlmInvokeError" => campaign_copy = EmptyDict
    /\ pc = "image" => image_prompt_data = PromptOf(creative_brief, Event["city"])
    /\ (lastCall.stage = "visual" /\ lastCall.cause = "LlmInvokeError") =>
          /\ lastCall.kind = "ret"
          /\ lastCall.unit \in D
          /\ completed_campaigns[Cardinality({j \in D : j <= lastCall.unit})]
                ["visual_assets_status"] = EmptyDict
    /\ (lastCall.stage \in {"copy", "visual"} /\ lastCall.kind = "raise") =>
          /\ lastCall.unit \notin D
          /\ lastCall.cause \in {"PromptMissing", "LlmSetupError"}

CopyAndVisualAmong(B) == CopyAndVisualOf(B, ReturnedAmong(B))

ScenarioCase ==
    /\ budget = MaxEvents - 2
    /\ Cardinality({k \in DOMAIN trace : trace[k].stage = "analyze"}) = 1
    /\ Len(all_high_potential_events) = 1
    /\ Get(all_high_potential_events[1], "marketing_potential_score", 0) = 9
    /\ CalledWith("direct", 1, "ok")
    /\ Called("copy", 1) /\ ~CalledWith("copy", 1, "ok")
    /\ CalledWith("visual", 1, "ok")
    /\ CalledWith("image", 1, "ok")

\* C14 (end-to-end scenario): when the analysis of the one target that
\* yielded two raw events scores them 9 and 5, the worklist gains the event of
\* score 9 alone; and in a run of the scenario the batch holds, from the end of
\* the campaign loop to the end of the run, exactly one package, that of the
\* event of score 9, with its brief, empty text_assets and a
\* visual_assets_status of status Success with a filename and no error.
C14_Scenario ==
    [][/\ (/\ pc = "analyze" /\ trace' # trace
           /\ budget = MaxEvents - 2 /\ all_high_potential_events = <<>>
           /\ lastCall'.kind = "ret"
           /\ Len(lastCall'.value) = 2
           /\ Get(lastCall'.value[1], "marketing_potential_score", 0) = 9
           /\ Get(lastCall'.value[2], "marketing_potential_score", 0) = 5) =>
              all_high_potential_events' = <<lastCall'.value[1]>>
       /\ ScenarioCase' =>
              /\ pc' \in PersistencePlaces \cup {"done"}
              /\ Len(completed_campaigns') = 1
              /\ DOMAIN completed_campaigns'[1] = PackageFields
              /\ completed_campaigns'[1]["source_event"] = all_high_potential_events'[1]
              /\ completed_campaigns'[1]["creative_brief"] =
                    [marketing_angle |-> <<all_high_potential_events'[1]["event_title"],
                                            all_high_potential_events'[1]["city"]>>]
              /\ completed_campaigns'[1]["text_assets"] = EmptyDict
              /\ DOMAIN completed_campaigns'[1]["visual_assets_status"] = {"status", "filename"}
              /\ completed_campaigns'[1]["visual_assets_status"]["status"] = "Success"
      ]_vars

\* C14 witness: the run of the scenario has ended, its one package written to
\* the JSON file of the date.
C14_Witness ==
    /\ pc = "done"
    /\ ScenarioCase
    /\ runResult.how = "returned"
    /\ Len(completed_campaigns) = 1
    /\ completed_campaigns[1]["text_assets"] = EmptyDict
    /\ completed_campaigns[1]["visual_assets_status"]["status"] = "Success"
    /\ jsonFiles[today] = File(completed_campaigns)

\* C15 as stated (fatal configuration error): a call that found its prompt
\* file missing ends the run by an exception.
C15_Original ==
    lastCall.cause = "PromptMissing" =>
        pc = "done" /\ runResult.how = "raised"

\* C15 amended: a collaborator whose prompt file is missing raises.  The
\* exception of Scan or Analyze is caught by the handler of the scan loop: the
\* worklist is unchanged and the loop goes on with the next target.  The
\* exception of Direct, Copy or VisualStrategy is caught by the handler of the
\* campaign loop: the batch is unchanged and the loop goes on with the next
\* event.  In neither case does the run end by the exception, nor the process.
\* Only the exception of MarkdownRender leaves the run: it ends the process
\* when the run is the immediate one, and leaves the scheduler Idle when the
\* run is a scheduled one.
C15_MissingPrompt ==
    [][(Len(trace') = Len(trace) + 1 /\ Last(trace').stage = lastCall'.stage
            /\ lastCall'.cause = "PromptMissing") =>
        /\ lastCall'.kind = "raise"
        /\ lastCall'.stage \in LlmStages
        /\ IF lastCall'.stage = "markdown"
           THEN /\ pc' = "done"
                /\ runResult' = [how |-> "raised", at |-> "markdown"]
                /\ active' = 0
                /\ sched' = IF sched = "Immediate" THEN "Crashed" ELSE "Idle"
           ELSE /\ sched' # "Crashed"
                /\ pc' = "done" => /\ runResult'.how = "returned"
                                   /\ all_high_potential_events' = <<>>
                                   /\ sched' = "Idle"
                /\ pc' # "done" => sched' = sched /\ runResult' = runResult
                /\ all_high_potential_events' = all_high_potential_events
                /\ completed_campaigns' = completed_campaigns
                /\ IF lastCall'.stage \in {"scan", "analyze"}
                   THEN IF ti < NumTargets
                        THEN pc' = "scan" /\ ti' = ti + 1
                        ELSE pc' \in {"direct", "done"}
                   ELSE IF ei < Len(all_high_potential_events)
                        THEN pc' = "direct" /\ ei' = ei + 1
                        ELSE pc' = "stage5"
      ]_vars

\* C15 witness: in the immediate run the prompt file of the visual strategist
\* is missing; the call for the only event raised, the campaign loop is over
\* with an empty batch and the run, like the process, goes on.
C15_Witness ==
    /\ sched = "Immediate"
    /\ pc = "stage5"
    /\ lastCall.stage = "visual" /\ lastCall.cause = "PromptMissing" /\ lastCall.kind = "raise"
    /\ Len(all_high_potential_events) = 1
    /\ completed_campaigns = <<>>
    /\ active = 1

\* C16 (ImageResult shape): every call of run_image_creator, whatever its
\* input dict (no prompt, an empty prompt, a prompt) and whatever fails inside
\* it (the API call, the image data, the file write), returns and does not
\* raise; the result is a non-empty dict whose status is Success or Failed,
\* with a filename and no error exactly when the status is Success and an
\* error and no filename exactly when it is Failed; it is Success exactly when
\* there was a prompt and nothing failed.
C16_ImageResult ==
    lastCall.stage = "image" =>
        /\ lastCall.kind = "ret"
        /\ lastCall.value # EmptyDict
        /\ Has(lastCall.value, "status")
        /\ lastCall.value["status"] \in {"Success", "Failed"}
        /\ Has(lastCall.value, "filename") <=> lastCall.value["status"] = "Success"
        /\ Has(lastCall.value, "error") <=> lastCall.value["status"] = "Failed"
        /\ lastCall.value["status"] = "Success" <=>
              /\ Has(image_prompt_data, "image_prompt")
              /\ image_prompt_data["image_prompt"] # EmptyText
              /\ lastCall.cause = "None"

\* C16 witness: after a call that succeeded and one whose file write failed,
\* a call without a prompt has returned a Failed result with an error.
C16_Witness ==
    /\ pc = "unit"
    /\ CalledWith("image", 1, "ok")
    /\ CalledWith("image", 2, "empty")
    /\ lastCall.stage = "image" /\ lastCall.unit = 3
    /\ image_prompt_data = EmptyDict
    /\ lastCall.kind = "ret"
    /\ lastCall.value = [status |-> "Failed", error |-> "No prompt provided."]

\* the worklist entries equal to event e that were packaged, and the packages of e
OccurrencesPackaged(e) ==
    Cardinality({i \in DegradedEvents : all_high_potential_events[i] = e})

\* every worklist entry the campaign loop has done with had one Direct call of
\* its own, and each event has as many packages as packaged entries equal to it
EachOccurrence ==
    \A i \in DOMAIN all_high_potential_events :
        Handled(i) =>
            /\ Cardinality({k \in DOMAIN trace :
                  trace[k].stage = "direct" /\ trace[k].unit = i}) = 1
            /\ PackagesOf(all_high_potential_events[i]) =
                  OccurrencesPackaged(all_high_potential_events[i])

\* C17 (no deduplication): each analysis that returns adds to the worklist as
\* many entries as it has events of score >= 7, equal events counted each
\* time, so that the worklist length is the sum over the targets of their
\* qualifying events; the campaign stage leaves the worklist as it is and
\* processes each entry on its own: every entry it has done with had exactly
\* one Direct call, and the batch holds, for each event, as many packages as
\* there are entries equal to it that got a brief and whose calls returned.
C17_NoDeduplication ==
    [][/\ (pc = "analyze" /\ trace' # trace /\ lastCall'.kind = "ret") =>
              Len(all_high_potential_events') =
                  Len(all_high_potential_events)
                  + Cardinality({k \in DOMAIN lastCall'.value :
                        Get(lastCall'.value[k], "marketing_potential_score", 0) >= 7})
       /\ (pc = "scan" /\ trace' # trace) =>
              all_high_potential_events' = all_high_potential_events
       /\ pc \in CampaignPlaces \cup PersistencePlaces =>
              all_high_potential_events' = all_high_potential_events
       /\ EachOccurrence'
      ]_vars

\* C17 witness: one target yielded the same title and URL twice, both passed
\* the threshold; the worklist holds the two equal entries, each had its own
\* Direct, Copy and VisualStrategy calls, and the batch holds a package for
\* each.
C17_Witness ==
    /\ pc = "stage5"
    /\ Len(all_high_potential_events) = 2
    /\ all_high_potential_events[1] = all_high_potential_events[2]
    /\ Called("direct", 1) /\ Called("direct", 2)
    /\ Called("copy", 1) /\ Called("copy", 2)
    /\ Called("visual", 1) /\ Called("visual", 2)
    /\ Len(completed_campaigns) = 2
    /\ completed_campaigns[1]["source_event"] = completed_campaigns[2]["source_event"]

\* C18 (one date stamp per persistence): the JSON file and the markdown file
\* that one run writes, or tries to write, carry the same date, also when
\* midnight passes between the two writes.
C18_OneDateStamp ==
    \A j, k \in DOMAIN trace :
        (trace[j].stage = "json_write" /\ trace[k].stage = "md_write") =>
            trace[j].unit = trace[k].unit

\* C19 for the events D that were packaged
ImageAfterVisualOf(D) ==
    /\ \A k \in DOMAIN trace :
          trace[k].stage = "image" =>
              /\ k > 1
              /\ trace[k - 1] = Call("visual", trace[k].unit, "ok")
    /\ pc = "image" =>
          /\ lastCall.stage = "visual" /\ lastCall.unit = ei /\ lastCall.kind = "ret"
          /\ Has(lastCall.value, "image_prompt")
          /\ lastCall.value["image_prompt"] # EmptyText
          /\ image_prompt_data = lastCall.value
    /\ \A k \in DOMAIN trace :
          (trace[k].stage = "visual" /\ trace[k].out # "ok") =>
              /\ k < Len(trace) => trace[k + 1].stage # "image"
              /\ trace[k].out = "empty" =>
                    LET i == trace[k].unit
                        p == completed_campaigns[Cardinality({j \in D : j <= i})]
                    IN  /\ i \in D
                        /\ p["source_event"] = all_high_potential_events[i]
                        /\ p["visual_assets_status"] = EmptyDict
    /\ (lastCall.stage = "visual" /\ lastCall.kind = "ret"
            /\ Get(lastCall.value, "image_prompt", EmptyText) = EmptyText) =>
          CalledWith("visual", lastCall.unit, "empty")

\* C19 (image creation is gated on and ordered after visual strategy): every
\* ImageCreate call for a worklist entry comes right after the VisualStrategy
\* call for that entry, which returned a non-empty image_prompt, and is given
\* that result; when the VisualStrategy call returned no prompt (an empty dict
\* or an empty image_prompt) or raised, no ImageCreate call follows it; an
\* entry whose VisualStrategy call returned no prompt is still packaged, with
\* an empty visual_assets_status.
C19_ImageAfterVisual == ImageAfterVisualOf(DegradedEvents)

\* C19 witness: the visual strategist gave no prompt for the first event, which
\* was packaged with an empty visual_assets_status and no ImageCreate call, and
\* a prompt for the second, whose ImageCreate call followed.
C19_Witness ==
    /\ pc = "stage5"
    /\ CalledWith("visual", 1, "empty") /\ ~Called("image", 1)
    /\ CalledWith("visual", 2, "ok") /\ Called("image", 2)
    /\ Len(completed_campaigns) = 2
    /\ completed_campaigns[1]["visual_assets_status"] = EmptyDict
    /\ completed_campaigns[2]["visual_assets_status"] # EmptyDict
    /\ lastCall.stage = "image"

CollaboratorStages == {"scan", "analyze", "direct", "copy", "visual", "image", "markdown"}

\* the place of a trace entry in the order of the run: the targets in turn,
\* scan before analyze; then the worklist entries in turn, direct, copy,
\* visual, image; then the JSON write, the markdown call, the markdown write
Rank(entry) ==
    LET afterScan == 2 * (NumTargets + 1)
        afterCampaign == afterScan + 4 * (Len(all_high_potential_events) + 1)
    IN  CASE entry.stage = "scan"       -> 2 * entry.unit
          [] entry.stage = "analyze"    -> 2 * entry.unit + 1
          [] entry.stage = "direct"     -> afterScan + 4 * entry.unit
          [] entry.stage = "copy"       -> afterScan + 4 * entry.unit + 1
          [] entry.stage = "visual"     -> afterScan + 4 * entry.unit + 2
          [] entry.stage = "image"      -> afterScan + 4 * entry.unit + 3
          [] entry.stage = "json_write" -> afterCampaign
          [] entry.stage = "markdown"   -> afterCampaign + 1
          [] OTHER                      -> afterCampaign + 2

\* C20 (no retry): in one run no collaborator is invoked twice for the same
\* unit: Scan and Analyze at most once per target, Direct, Copy, VisualStrategy
\* and ImageCreate at most once per worklist entry, MarkdownRender at most
\* once.  The calls of a run follow one another in the order of targets, then
\* of worklist entries, then persistence, each later than the one before; and
\* a call that raised, or a Direct call that gave no brief, is followed by no
\* call for the same worklist entry.
C20_NoRetry ==
    /\ \A k \in DOMAIN trace :
          CASE trace[k].stage \in {"scan", "analyze"} -> trace[k].unit \in 1..NumTargets
            [] trace[k].stage \in CampaignPlaces ->
                   trace[k].unit \in DOMAIN all_high_potential_events
            [] trace[k].stage = "markdown" -> trace[k].unit = 0
            [] OTHER -> TRUE
    /\ \A k \in 2..Len(trace) :
          LET a == trace[k - 1]
              b == trace[k]
          IN  /\ Rank(a) < Rank(b)
              /\ (/\ a.stage \in CampaignPlaces /\ b.stage \in CampaignPlaces
                  /\ (a.out = "raise" \/ (a.stage = "direct" /\ a.out = "empty"))) =>
                    a.unit < b.unit

\* C20 witness: in a run that has ended, the copy call of the first event
\* raised, the image creation of the second failed and the markdown
\* collaborator failed; each was invoked once, and apart from the two file
\* writes the trace holds collaborator calls only.
C20_Witness ==
    /\ pc = "done"
    /\ Len(all_high_potential_events) = 2
    /\ CalledWith("direct", 1, "ok") /\ CalledWith("copy", 1, "raise")
    /\ ~Called("visual", 1)
    /\ CalledWith("direct", 2, "ok") /\ CalledWith("image", 2, "empty")
    /\ CalledWith("markdown", 0, "empty")
    /\ Cardinality({k \in DOMAIN trace : trace[k].stage \in CollaboratorStages}) = Len(trace) - 2

IsPrefix(s, t) == Len(s) <= Len(t) /\ SubSeq(t, 1, Len(s)) = s

\* the index of a city in the configured targets
TargetIndex(city) == CHOOSE i \in 1..NumTargets : Targets[i] = city

\* the events of sequence s are, in order, entries of sequence t
IsSubsequence(s, t) ==
    \E f \in [DOMAIN s -> DOMAIN t] :
        /\ \A k \in DOMAIN s : s[k] = t[f[k]]
        /\ \A j, k \in DOMAIN s : j < k => f[j] < f[k]

\* C21 (append-only, order-preserving bookkeeping): every step of a run
\* leaves the worklist and the batch as they were or appends at their end;
\* the package a campaign step appends is that of the worklist entry being
\* processed, and the entries are taken in worklist order; so the source
\* events of the batch are a subsequence of the worklist, and the worklist
\* lists the events by target, in the order of the configured targets.
C21_AppendOnly ==
    [][pc # "done" =>
        /\ IsPrefix(all_high_potential_events, all_high_potential_events')
        /\ IsPrefix(completed_campaigns, completed_campaigns')
        /\ Len(completed_campaigns') <= Len(completed_campaigns) + 1
        /\ Len(completed_campaigns') = Len(completed_campaigns) + 1 =>
              /\ pc \in {"visual", "image"}
              /\ completed_campaigns'[Len(completed_campaigns')]["source_event"]
                    = all_high_potential_events[ei]
        /\ (pc \in CampaignPlaces /\ pc' \in CampaignPlaces) => ei' \in {ei, ei + 1}
        /\ IsSubsequence([k \in DOMAIN completed_campaigns' |->
                              completed_campaigns'[k]["source_event"]],
                         all_high_potential_events')
        /\ \A j, k \in DOMAIN all_high_potential_events' :
              j < k => TargetIndex(all_high_potential_events'[j]["city"])
                          <= TargetIndex(all_high_potential_events'[k]["city"])
      ]_vars

\* C21 witness: the worklist holds an event of the first target and then one
\* of the last; the first got no brief, and the batch holds the package of the
\* second alone.
C21_Witness ==
    /\ pc = "stage5"
    /\ Len(all_high_potential_events) = 2
    /\ all_high_potential_events[1]["city"] = Targets[1]
    /\ all_high_potential_events[2]["city"] = Targets[NumTargets]
    /\ CalledWith("direct", 1, "empty")
    /\ Len(completed_campaigns) = 1
    /\ completed_campaigns[1]["source_event"] = all_high_potential_events[2]

AllTargetsScanned == \A t \in 1..NumTargets : ScanCount(trace, t) = 1
AllEventsTaken == \A i \in DOMAIN all_high_potential_events : Called("direct", i)

-----------------------------------------------------------------------------
(* C23: the analysis is gated on the scan *)

\* the step is a call of the collaborator `stage`
IsCallOf(stage) ==
    /\ Len(trace') = Len(trace) + 1
    /\ Last(trace').stage = stage
    /\ lastCall'.stage = stage

\* the events list of a scan result, <<>> when there is none
EventsOf(data) == Get(data, "events", <<>>)

\* C23: after the scan of a target the analysis is the next call exactly when
\* the scanner returned a result with a non-empty events list, and it is then
\* made for the same target with that result: what it returns is made of that
\* target's city and of that result's events, one entry per event.  When the
\* scanner returned the empty result or no events (or raised), the analysis is
\* not called and the worklist stays as it was.  The analysis is never called
\* in another place.
C23_AnalysisGate ==
    [][ /\ IsCallOf("scan") =>
            /\ (pc' = "analyze") <=>
                    (lastCall'.kind = "ret" /\ EventsOf(lastCall'.value) # <<>>)
            /\ pc' = "analyze" =>
                    /\ ti' = ti
                    /\ raw_events_data' = lastCall'.value
            /\ pc' # "analyze" =>
                    all_high_potential_events' = all_high_potential_events
        /\ IsCallOf("analyze") =>
            /\ pc = "analyze"
            /\ lastCall.stage = "scan" /\ lastCall.unit = ti
            /\ lastCall.kind = "ret" /\ raw_events_data = lastCall.value
            /\ EventsOf(raw_events_data) # <<>>
            /\ lastCall'.unit = ti
            /\ lastCall'.kind = "ret" /\ lastCall'.value # <<>> =>
                  /\ Len(lastCall'.value) = Len(EventsOf(raw_events_data))
                  /\ \A k \in DOMAIN lastCall'.value :
                        /\ lastCall'.value[k].city = Targets[ti]
                        /\ lastCall'.value[k].event_title =
                               EventsOf(raw_events_data)[k].event_title
      ]_vars

\* the first target's scan brought no analysis, the second target's scan
\* returned events and the analysis was called for it and returned entries
C23_Witness ==
    /\ Len(trace) = 3
    /\ trace[1] = Call("scan", 1, "done")
    /\ trace[2] = Call("scan", 2, "done")
    /\ trace[3] = Call("analyze", 2, "done")
    /\ lastCall.stage = "analyze" /\ lastCall.kind = "ret"
    /\ Len(lastCall.value) = 2
    /\ all_high_potential_events # <<>>

-----------------------------------------------------------------------------
(* C24: the two persistence writes *)

PersistenceStages == {"json_write", "markdown", "md_write"}

\* the places of the persistence steps in the trace
PersistenceSteps == {k \in DOMAIN trace : trace[k].stage \in PersistenceStages}

-----------------------------------------------------------------------------
(* C25: no state is carried from one run to the next *)

\* the locals of a run that has called nothing yet
RunLocalsEmpty ==
    /\ all_high_potential_events = <<>>
    /\ completed_campaigns = <<>>
    /\ raw_events_data = EmptyDict
    /\ creative_brief = EmptyDict
    /\ campaign_copy = EmptyDict
    /\ image_prompt_data = EmptyDict
    /\ markdown_text = EmptyDict
    /\ trace = <<>>

\* C25: the immediate run and every run a trigger starts begin with an empty
\* worklist, an empty batch and no scan result, brief, copy, prompt or text
\* left from before.  Within a run the scan result changes only to what a scan
\* of this run returned, the worklist grows only by entries of this run's
\* analysis of that scan result, the batch grows only by a package whose
\* source event is the worklist entry in hand, and a file changes only to this
\* run's batch (JSON) or to the text rendered in this run (markdown).  So the
\* batch and the files a run writes hold nothing of an earlier run.
C25_NoCrossRunState ==
    /\ (runs = 1 /\ trace = <<>>) => RunLocalsEmpty
    /\ [][ /\ runs' # runs => (runs' = runs + 1 /\ RunLocalsEmpty' /\ pc' = "scan")
           /\ (runs' = runs /\ raw_events_data' # raw_events_data) =>
                 \/ raw_events_data' = EmptyDict
                 \/ IsCallOf("scan") /\ raw_events_data' = lastCall'.value
           /\ (runs' = runs /\ all_high_potential_events' # all_high_potential_events) =>
                 /\ IsCallOf("analyze") /\ lastCall'.kind = "ret"
                 /\ IsPrefix(all_high_potential_events, all_high_potential_events')
                 /\ \A k \in DOMAIN all_high_potential_events' :
                       k > Len(all_high_potential_events) =>
                          /\ all_high_potential_events'[k] \in Range(lastCall'.value)
                          /\ \E j \in DOMAIN EventsOf(raw_events_data) :
                                all_high_potential_events'[k].event_title =
                                    EventsOf(raw_events_data)[j].event_title
           /\ (runs' = runs /\ completed_campaigns' # completed_campaigns) =>
                 /\ Len(completed_campaigns') = Len(completed_campaigns) + 1
                 /\ IsPrefix(completed_campaigns, completed_campaigns')
                 /\ Last(completed_campaigns')["source_event"] = Event
                 /\ Last(completed_campaigns')["creative_brief"] = creative_brief
                 /\ all_high_potential_events' = all_high_potential_events
           /\ jsonFiles' # jsonFiles =>
                 /\ runs' = runs
                 /\ jsonFiles' = [jsonFiles EXCEPT ![today] = File(completed_campaigns)]
           /\ (runs' = runs /\ markdown_text' # markdown_text) =>
                 /\ IsCallOf("markdown") /\ markdown_text' = lastCall'.value
                 /\ markdown_text'["content"] \in {EmptyText, Text(completed_campaigns)}
           /\ mdFiles' # mdFiles =>
                 /\ runs' = runs
                 /\ mdFiles' = [mdFiles EXCEPT ![today] = File(markdown_text["content"])]
         ]_vars

\* the second run has built its batch, which shares no package with the JSON
\* file the first run wrote
C25_Witness ==
    /\ runs = 2
    /\ pc = "stage5"
    /\ completed_campaigns # <<>>
    /\ jsonFiles[today].exists
    /\ jsonFiles[today].content # <<>>
    /\ \A k \in DOMAIN jsonFiles[today].content :
          jsonFiles[today].content[k] \notin Range(completed_campaigns)

-----------------------------------------------------------------------------
(* C26: what starts a run *)

\* the step is the 03:00 trigger of the day
TriggerFires == ~passed03 /\ passed03'

\* C26: the process starts with one run, the immediate one, in progress and
\* the scheduler not yet started; while that run lasts no other run starts,
\* whatever triggers fire, and the scheduler becomes Idle only by the end of
\* that run.  After that a 03:00 trigger that fires while the scheduler is
\* Idle starts exactly one run, and the number of runs changes in no other
\* way: a run starts only by a trigger taken by an Idle scheduler.
C26_TriggerPolicy ==
    /\ (runs = 1 /\ sched = "Immediate" /\ active = 1 /\ pc = "scan" /\ trace = <<>>)
    /\ [][ /\ sched = "Immediate" =>
                /\ runs = 1 /\ active = 1 /\ pc # "done"
                /\ runs' = runs
                /\ sched' # "Immediate" => (pc' = "done" /\ active' = 0)
                /\ sched' \in {"Immediate", "Idle", "Crashed"}
           /\ (TriggerFires /\ sched = "Idle") =>
                /\ runs' = runs + 1
                /\ active' = 1 /\ sched' = "Running"
                /\ pc' = "scan" /\ trace' = <<>>
           /\ runs' # runs =>
                /\ TriggerFires /\ sched = "Idle" /\ active = 0 /\ pc = "done"
                /\ runs' = runs + 1
           /\ (pc' # pc /\ pc = "done") => runs' = runs + 1
           /\ active' \in {0, 1}
         ]_vars

\* the immediate run has returned, the scheduler was Idle on the day after and
\* the day's trigger has just started the second run
C26_Witness ==
    /\ runs = 2
    /\ today = 2
    /\ sched = "Running" /\ active = 1
    /\ passed03
    /\ pc = "scan" /\ trace = <<>>
    /\ runResult.how = "returned"

-----------------------------------------------------------------------------
(* C27: the barriers between the stages *)

\* the stage of the run a call belongs to
Phase(entry) ==
    IF entry.stage \in {"scan", "analyze"} THEN 1
    ELSE IF entry.stage \in CampaignPlaces THEN 2
    ELSE 3

\* the calls of the campaign stage made so far
CampaignSteps == {k \in DOMAIN trace : Phase(trace[k]) = 2}

\* in every state: the calls of a run come stage by stage
StagesInOrder ==
    /\ \A k \in 1..(Len(trace) - 1) : Phase(trace[k]) <= Phase(trace[k + 1])
    /\ CampaignSteps # {} =>
          /\ AllTargetsScanned
          /\ pc \notin {"scan", "analyze"}
          /\ all_high_potential_events # <<>>
    /\ PersistenceSteps # {} =>
          /\ AllTargetsScanned
          /\ pc \notin {"scan", "analyze"} \cup CampaignPlaces
          /\ \A i \in DOMAIN all_high_potential_events : Called("direct", i)
    /\ pc \in CampaignPlaces \cup PersistencePlaces =>
          AllTargetsScanned /\ ti = NumTargets

\* C27: in a run every scan and analysis comes before every call of the
\* campaign stage (Direct, Copy, VisualStrategy, ImageCreate), which is made
\* only when every configured target has been scanned and its handling has
\* ended; every persistence step (JSON write, markdown rendering, markdown
\* write) comes after every call of the campaign stage and only when every
\* worklist event has been taken up; and from the first place of the campaign
\* stage on no step of the run changes the worklist.
C27_StageBarrier ==
    /\ []StagesInOrder
    /\ [][(pc \notin {"scan", "analyze"} /\ runs' = runs) =>
              all_high_potential_events' = all_high_potential_events]_vars

\* the campaign stage is about to make its first call: the worklist holds an
\* event of the first target, which has waited for the scans of the others
C27_Witness ==
    /\ pc = "direct" /\ ei = 1
    /\ ~Called("direct", 1)
    /\ AllTargetsScanned
    /\ Len(all_high_potential_events) = 2
    /\ all_high_potential_events[1].city = Targets[1]
    /\ all_high_potential_events[2].city = Targets[NumTargets]

-----------------------------------------------------------------------------
(* C28: the packages of the batch *)

\* the worklist entries the campaign loop has finished with
HandledEvents == {i \in DOMAIN all_high_potential_events : Handled(i)}

\* package p was built from worklist entry i
BuiltFrom(p, i) ==
    LET event == all_high_potential_events[i]
    IN  /\ p["source_event"] = event
        /\ CalledWith("direct", i, "ok")
        /\ Truthy(p["creative_brief"])
        /\ p["creative_brief"] = BriefFor(event)
        /\ ~CalledWith("copy", i, "raise")
        /\ IF Truthy(p["text_assets"])
           THEN /\ CalledWith("copy", i, "ok")
                /\ p["text_assets"] = CopyFor(p["creative_brief"], event["city"])
           ELSE p["text_assets"] = EmptyDict
        /\ IF Truthy(p["visual_assets_status"])
           THEN CalledWith("visual", i, "ok") /\ Called("image", i)
           ELSE p["visual_assets_status"] = EmptyDict

\* C28: in every state every worklist entry has a marketing_potential_score
\* of 7 or more; the k-th package of the batch was built from a worklist entry
\* that the campaign loop has finished with and that is not before the k-th:
\* its source_event is that entry, its creative_brief is the non-empty brief
\* Direct returned for that entry, its text_assets is what Copy returned for
\* that brief and the entry's city (possibly the empty value), and its
\* visual_assets_status is non-empty only when VisualStrategy returned an
\* image prompt for that entry and ImageCreate was called.  The batch never
\* holds more packages than the campaign loop has finished entries.
C28_WellFormed ==
    /\ \A i \in DOMAIN all_high_potential_events :
          ScoreAtLeast7(all_high_potential_events[i])
    /\ Len(completed_campaigns) <= Cardinality(HandledEvents)
    /\ \A k \in DOMAIN completed_campaigns :
          /\ DOMAIN completed_campaigns[k] = PackageFields
          /\ \E i \in HandledEvents : i >= k /\ BuiltFrom(completed_campaigns[k], i)

\* the campaign loop has finished with two entries: the first has a package
\* with copy and a created image, the second a package with neither
C28_Witness ==
    /\ pc = "stage5"
    /\ Len(all_high_potential_events) = 2
    /\ Len(completed_campaigns) = 2
    /\ Truthy(completed_campaigns[1]["text_assets"])
    /\ Get(completed_campaigns[1]["visual_assets_status"], "status", "none") = "Success"
    /\ completed_campaigns[2]["text_assets"] = EmptyDict
    /\ completed_campaigns[2]["visual_assets_status"] = EmptyDict

====
